---- MODULE Spec2Model ----
(***************************************************************************)
(* note-cli: a command-line note manager (src/src/main.rs).                *)
(*                                                                         *)
(* Every command is one process: it loads the whole collection from the   *)
(* backing file, changes it in memory and writes the whole collection     *)
(* back.  The state of the system is therefore the backing file, the wall *)
(* clock, and what the last command returned and printed.                 *)
(***************************************************************************)
EXTENDS Integers, Sequences, FiniteSets, TLC

(***************************************************************************)
(* Bounds of the model.                                                    *)
(***************************************************************************)
\* Add is not offered once the stored collection holds this many notes.
MaxNotes == 3
\* Largest reading of the wall clock.
MaxClock == 1
\* The same for the specification of the clock and for that of the file system.
MaxTimedNotes == 2
MaxStoredNotes == 2
\* The same for the specification of List and Search.
MaxViewedNotes == 2

\* The same for the specification of the tags.
MaxTaggedNotes == 2

\* The same for the specification of runs that overlap.
MaxRacedNotes == 1

(***************************************************************************)
(* Input alphabets.  Text is a sequence of characters.                     *)
(***************************************************************************)
NoText == <<>>
TextA == <<"a">>
TextB == <<"B">>
TagX == "x"
TagY == "y"

\* The ids a command line may name: every id that can be live, and one more.
Ids == 1 .. (MaxNotes + 1)
TimedIds == 1 .. (MaxTimedNotes + 1)
StoredIds == 1 .. (MaxStoredNotes + 1)
ViewedIds == 1 .. (MaxViewedNotes + 1)

TaggedIds == 1 .. (MaxTaggedNotes + 1)
RacedIds == 1 .. (MaxRacedNotes + 1)
Methods == {"Id", "Date", "Update", "Content"}

\* Outcomes of std::fs::read_to_string other than the file's content.
ReadOk == "ok"
ReadDenied == "io_error"
\* Outcomes of std::fs::write: done, failed before the file was touched,
\* failed after the file was truncated, failed after part of the text was
\* written.
WriteOk == "ok"
WriteOpenFailed == "open_failed"
WriteFailedEmpty == "failed_after_truncate"
WriteFailedPartial == "failed_partway"
WriteOutcomes == {WriteOk, WriteOpenFailed, WriteFailedEmpty, WriteFailedPartial}

(***************************************************************************)
(* Data.                                                                   *)
(***************************************************************************)
Note(id, content, tags, created_at, updated_at) ==
    [id |-> id, content |-> content, tags |-> tags,
     created_at |-> created_at, updated_at |-> updated_at]

NoteData(notes, free_ids) == [notes |-> notes, free_ids |-> free_ids]

EmptyData == NoteData(<<>>, <<>>)

\* The backing file.  kind is what its text is: no file at all, blank text,
\* the text "[]", a serialized NoteData document, or the cut-off beginning of
\* a document.  data is the document's value and EmptyData for the others.
FileOf(kind, data) == [kind |-> kind, data |-> data]
NoFile == FileOf("not_found", EmptyData)
BlankFile == FileOf("blank", EmptyData)
EmptyArrayFile == FileOf("empty_array", EmptyData)
TruncatedFile == FileOf("truncated", EmptyData)

\* serde_json::to_string_pretty of a NoteData: a document with the two fields.
to_string_pretty(data) == FileOf("object", data)

VARIABLES
    file,   \* the backing file at the path given to the commands
    clock,  \* the latest reading of Utc::now()
    last,   \* the last command: its arguments, its Result and its message
    out,    \* the rows of the table the last command printed
    inflight  \* the runs of the program that have loaded and not yet exited

vars == <<file, clock, last, out, inflight>>

(***************************************************************************)
(* Persistence layer.                                                      *)
(***************************************************************************)
Ok(data) == [ok |-> TRUE, data |-> data]
Err == [ok |-> FALSE, data |-> EmptyData]

\* A missing or blank file is an empty collection; a document parses to its
\* value; "[]" is a sequence of no elements where the two fields of NoteData
\* are expected, and a cut-off document ends too early: both are parse errors.
load_notes(f, rd) ==
    IF f.kind = "not_found" THEN Ok(EmptyData)
    ELSE IF rd # ReadOk THEN Err
    ELSE IF f.kind = "blank" THEN Ok(EmptyData)
    ELSE IF f.kind = "object" THEN Ok(f.data)
    ELSE Err

\* std::fs::write(path, text): create or truncate the file, then write text.
fs_write(f, text, wr) ==
    IF wr = WriteOk THEN [ok |-> TRUE, file |-> text]
    ELSE IF wr = WriteOpenFailed THEN [ok |-> FALSE, file |-> f]
    ELSE IF wr = WriteFailedEmpty THEN [ok |-> FALSE, file |-> BlankFile]
    ELSE [ok |-> FALSE, file |-> TruncatedFile]

save_notes(f, data, wr) == fs_write(f, to_string_pretty(data), wr)

(***************************************************************************)
(* Helpers of the standard library, as the commands use them.              *)
(***************************************************************************)
\* Iterator::position: the first index whose note has the id, 0 for None.
position(notes, id) ==
    IF \E i \in 1 .. Len(notes) : notes[i].id = id
    THEN CHOOSE i \in 1 .. Len(notes) :
            /\ notes[i].id = id
            /\ \A j \in 1 .. (i - 1) : notes[j].id # id
    ELSE 0

\* Vec::swap_remove: the last element takes the place of the removed one.
swap_remove(s, i) ==
    IF i = Len(s) THEN SubSeq(s, 1, Len(s) - 1)
    ELSE SubSeq(s, 1, i - 1) \o <<s[Len(s)]>> \o SubSeq(s, i + 1, Len(s) - 1)

\* Vec::contains
contains(s, x) == \E i \in 1 .. Len(s) : s[i] = x

\* A variant of push_new_tags without the contains check: every tag is pushed.
push_all_tags(note_tags, tags) == note_tags \o tags

\* A variant of push_new_tags that tests each tag against the tags the note
\* held before the loop only.
push_unheld_tags(note_tags, tags) ==
    note_tags \o SelectSeq(tags, LAMBDA t : ~contains(note_tags, t))

\* Vec::push of every tag of the input that the note does not hold yet; a tag
\* pushed earlier in the same loop counts as held.
RECURSIVE push_new_tags(_, _)
push_new_tags(note_tags, tags) ==
    IF tags = <<>> THEN note_tags
    ELSE push_new_tags(
            IF contains(note_tags, Head(tags)) THEN note_tags
            ELSE Append(note_tags, Head(tags)),
            Tail(tags))

\* char::to_lowercase and the byte order of the characters of the alphabet.
to_lowercase_char(c) == IF c = "A" THEN "a" ELSE IF c = "B" THEN "b" ELSE c
RECURSIVE to_lowercase(_)
to_lowercase(s) ==
    IF s = <<>> THEN <<>>
    ELSE <<to_lowercase_char(Head(s))>> \o to_lowercase(Tail(s))
char_code(c) ==
    IF c = "A" THEN 65 ELSE IF c = "B" THEN 66 ELSE IF c = "a" THEN 97 ELSE 98

\* str::contains: k occurs in s as a contiguous substring.
str_contains(s, k) ==
    \E i \in 1 .. (Len(s) - Len(k) + 1) : SubSeq(s, i, i + Len(k) - 1) = k

\* Ord for String: lexicographic on the bytes.
RECURSIVE str_le(_, _)
str_le(a, b) ==
    IF a = <<>> THEN TRUE
    ELSE IF b = <<>> THEN FALSE
    ELSE IF char_code(Head(a)) < char_code(Head(b)) THEN TRUE
    ELSE IF char_code(Head(a)) > char_code(Head(b)) THEN FALSE
    ELSE str_le(Tail(a), Tail(b))

\* The key comparison of each SortMethod.
key_le(method, a, b) ==
    IF method = "Id" THEN a.id <= b.id
    ELSE IF method = "Date" THEN a.created_at <= b.created_at
    ELSE IF method = "Update" THEN a.updated_at <= b.updated_at
    ELSE str_le(a.content, b.content)

\* slice::sort_by_key is a stable sort: x goes after every element whose key
\* is not greater than its own.
RECURSIVE insert_sorted(_, _, _)
insert_sorted(method, sorted, x) ==
    IF sorted = <<>> THEN <<x>>
    ELSE IF key_le(method, Head(sorted), x)
         THEN <<Head(sorted)>> \o insert_sorted(method, Tail(sorted), x)
         ELSE <<x>> \o sorted

RECURSIVE sort_by_key(_, _)
sort_by_key(method, s) ==
    IF s = <<>> THEN <<>>
    ELSE insert_sorted(method, sort_by_key(method, SubSeq(s, 1, Len(s) - 1)), s[Len(s)])

\* Iterator::filter(..).collect()
RECURSIVE filter_keyword(_, _)
filter_keyword(notes, keyword) ==
    IF notes = <<>> THEN <<>>
    ELSE (IF str_contains(to_lowercase(Head(notes).content), to_lowercase(keyword))
          THEN <<Head(notes)>> ELSE <<>>)
         \o filter_keyword(Tail(notes), keyword)

(***************************************************************************)
(* The commands' changes to the loaded collection.                         *)
(***************************************************************************)
\* A variant of new_id that takes the free id recorded last (Vec::pop), not
\* the one recorded first.
new_id_newest_free(data) ==
    IF data.free_ids # <<>> THEN data.free_ids[Len(data.free_ids)]
    ELSE IF data.notes = <<>> THEN 1
    ELSE data.notes[Len(data.notes)].id + 1

\* add_note: the id of the new note.  Ids are u32; within the bounds of the
\* model they stay far below 2^32, so note.id + 1 never overflows.
new_id(data) ==
    IF data.free_ids # <<>> THEN Head(data.free_ids)
    ELSE IF data.notes = <<>> THEN 1
    ELSE data.notes[Len(data.notes)].id + 1

\* A variant of AddNote that drops the repeated tags of its input.
AddNote_distinct_tags(data, content, tags, t1, t2) ==
    NoteData(
        Append(data.notes,
               Note(new_id(data), content, push_new_tags(<<>>, tags), t1, t2)),
        IF data.free_ids # <<>> THEN Tail(data.free_ids) ELSE data.free_ids)

\* add_note: the collection with the new note pushed; created_at and
\* updated_at are two readings of the clock, in this order.
AddNote(data, content, tags, t1, t2) ==
    NoteData(
        Append(data.notes, Note(new_id(data), content, tags, t1, t2)),
        IF data.free_ids # <<>> THEN Tail(data.free_ids) ELSE data.free_ids)

\* A variant of RemoveNote that does not record the id as free.
RemoveNote_forgets_id(data, id) ==
    NoteData(swap_remove(data.notes, position(data.notes, id)), data.free_ids)

\* remove_note, for index = position(..) found.
RemoveNote(data, id) ==
    NoteData(swap_remove(data.notes, position(data.notes, id)),
             Append(data.free_ids, id))

\* add_tag, for the note found.
AddTag(data, id, tags) ==
    LET i == position(data.notes, id) IN
    NoteData(
        [data.notes EXCEPT ![i].tags = push_new_tags(data.notes[i].tags, tags)],
        data.free_ids)

\* A variant of EditNote that forgets to set updated_at.
EditNote_keeps_updated_at(data, id, content, now) ==
    LET i == position(data.notes, id) IN
    NoteData([data.notes EXCEPT ![i].content = content], data.free_ids)

\* A variant of EditNote that stamps both timestamps.
EditNote_stamps_created_at(data, id, content, now) ==
    LET i == position(data.notes, id) IN
    NoteData(
        [data.notes EXCEPT ![i].content = content, ![i].updated_at = now,
                           ![i].created_at = now],
        data.free_ids)

\* edit_note, for the note found.
EditNote(data, id, content, now) ==
    LET i == position(data.notes, id) IN
    NoteData(
        [data.notes EXCEPT ![i].content = content, ![i].updated_at = now],
        data.free_ids)

(***************************************************************************)
(* The commands.  Each is one run of the program: main dispatches to the   *)
(* handler, which loads, changes and saves.  rd and wr are what the file   *)
(* system does to the handler's read and write; t1, t2 and now are the     *)
(* readings of Utc::now(), none earlier than the reading before it.        *)
(***************************************************************************)
Returned(op, id, text, tags, method, res, msg) ==
    [op |-> op, id |-> id, text |-> text, tags |-> tags, method |-> method,
     res |-> res, msg |-> msg]

\* Two runs of the program may be alive at once.
Procs == {"p1", "p2"}

\* A run: where it is (not started, past its load_notes, past its handler's
\* return), its command line, the collection its load_notes returned,
\* whether another run has saved since, and the collection it saved.
Run(pc, op, id, text, data, raced, wrote) ==
    [pc |-> pc, op |-> op, id |-> id, text |-> text, data |-> data,
     raced |-> raced, wrote |-> wrote]
NotStarted == Run("idle", "none", 0, NoText, EmptyData, FALSE, EmptyData)

Init ==
    /\ file = NoFile
    /\ clock = 0
    /\ last = Returned("none", 0, NoText, <<>>, "Id", "Ok", "")
    /\ out = <<>>
    /\ inflight = [p \in Procs |-> NotStarted]

add_note(content, tags, t1, t2, rd, wr) ==
    LET ld == load_notes(file, rd)
        data == AddNote(ld.data, content, tags, t1, t2)
        sv == save_notes(file, data, wr)
    IN  /\ UNCHANGED inflight
        /\ Len(file.data.notes) < MaxNotes
        /\ clock <= t1 /\ t1 <= t2 /\ t2 <= MaxClock
        /\ out' = <<>>
        /\ IF ~ld.ok
           THEN /\ t1 = clock /\ t2 = clock /\ wr = WriteOk
                /\ UNCHANGED <<file, clock>>
                /\ last' = Returned("add", 0, content, tags, "Id", "Err", "load")
           ELSE /\ file' = sv.file
                /\ clock' = t2
                /\ last' = Returned("add", new_id(ld.data), content, tags, "Id",
                                    IF sv.ok THEN "Ok" ELSE "Err",
                                    IF sv.ok THEN "" ELSE "save")

remove_note(id, rd, wr) ==
    LET ld == load_notes(file, rd)
        sv == save_notes(file, RemoveNote(ld.data, id), wr)
    IN  /\ UNCHANGED inflight
        /\ UNCHANGED clock
        /\ out' = <<>>
        /\ IF ~ld.ok
           THEN /\ wr = WriteOk
                /\ UNCHANGED file
                /\ last' = Returned("remove", id, NoText, <<>>, "Id", "Err", "load")
           ELSE IF position(ld.data.notes, id) = 0
           THEN /\ wr = WriteOk
                /\ UNCHANGED file
                /\ last' = Returned("remove", id, NoText, <<>>, "Id", "Err",
                                    "ID not found")
           ELSE /\ file' = sv.file
                /\ last' = Returned("remove", id, NoText, <<>>, "Id",
                                    IF sv.ok THEN "Ok" ELSE "Err",
                                    IF sv.ok THEN "" ELSE "save")

\* A variant of list_note that saves the collection it has sorted.
list_note_saves_sorted(method, rd) ==
    LET ld == load_notes(file, rd)
        sorted == sort_by_key(method, ld.data.notes)
    IN  /\ UNCHANGED inflight
        /\ UNCHANGED clock
        /\ IF ~ld.ok
           THEN /\ out' = <<>>
                /\ UNCHANGED file
                /\ last' = Returned("list", 0, NoText, <<>>, method, "Err", "load")
           ELSE IF ld.data.notes = <<>>
           THEN /\ out' = <<>>
                /\ UNCHANGED file
                /\ last' = Returned("list", 0, NoText, <<>>, method, "Ok",
                                    "No notes saved.")
           ELSE /\ out' = sorted
                /\ file' = save_notes(file, NoteData(sorted, ld.data.free_ids),
                                      WriteOk).file
                /\ last' = Returned("list", 0, NoText, <<>>, method, "Ok", "")

list_note(method, rd) ==
    LET ld == load_notes(file, rd)
    IN  /\ UNCHANGED inflight
        /\ UNCHANGED <<file, clock>>
        /\ IF ~ld.ok
           THEN /\ out' = <<>>
                /\ last' = Returned("list", 0, NoText, <<>>, method, "Err", "load")
           ELSE IF ld.data.notes = <<>>
           THEN /\ out' = <<>>
                /\ last' = Returned("list", 0, NoText, <<>>, method, "Ok",
                                    "No notes saved.")
           ELSE /\ out' = sort_by_key(method, ld.data.notes)
                /\ last' = Returned("list", 0, NoText, <<>>, method, "Ok", "")

add_tag(id, tags, rd, wr) ==
    LET ld == load_notes(file, rd)
        sv == save_notes(file, AddTag(ld.data, id, tags), wr)
    IN  /\ UNCHANGED inflight
        /\ UNCHANGED clock
        /\ out' = <<>>
        /\ IF ~ld.ok
           THEN /\ wr = WriteOk
                /\ UNCHANGED file
                /\ last' = Returned("add_tag", id, NoText, tags, "Id", "Err", "load")
           ELSE IF tags = <<>>
           THEN /\ wr = WriteOk
                /\ UNCHANGED file
                /\ last' = Returned("add_tag", id, NoText, tags, "Id", "Ok",
                                    "No tags given.")
           ELSE IF position(ld.data.notes, id) # 0
           THEN /\ file' = sv.file
                /\ last' = Returned("add_tag", id, NoText, tags, "Id",
                                    IF sv.ok THEN "Ok" ELSE "Err",
                                    IF sv.ok THEN "" ELSE "save")
           ELSE /\ wr = WriteOk
                /\ UNCHANGED file
                /\ last' = Returned("add_tag", id, NoText, tags, "Id", "Ok",
                                    "Note not found")

\* A variant of edit_note without the check for empty content.
edit_note_any_content(id, content, now, rd, wr) ==
    LET ld == load_notes(file, rd)
        sv == save_notes(file, EditNote(ld.data, id, content, now), wr)
    IN  /\ UNCHANGED inflight
        /\ clock <= now /\ now <= MaxClock
        /\ out' = <<>>
        /\ IF ~ld.ok
           THEN /\ now = clock /\ wr = WriteOk
                /\ UNCHANGED <<file, clock>>
                /\ last' = Returned("edit", id, content, <<>>, "Id", "Err", "load")
           ELSE IF position(ld.data.notes, id) # 0
           THEN /\ file' = sv.file
                /\ clock' = now
                /\ last' = Returned("edit", id, content, <<>>, "Id",
                                    IF sv.ok THEN "Ok" ELSE "Err",
                                    IF sv.ok THEN "" ELSE "save")
           ELSE /\ now = clock /\ wr = WriteOk
                /\ UNCHANGED <<file, clock>>
                /\ last' = Returned("edit", id, content, <<>>, "Id", "Ok",
                                    "Note not found")

edit_note(id, content, now, rd, wr) ==
    LET ld == load_notes(file, rd)
        sv == save_notes(file, EditNote(ld.data, id, content, now), wr)
    IN  /\ UNCHANGED inflight
        /\ clock <= now /\ now <= MaxClock
        /\ out' = <<>>
        /\ IF ~ld.ok
           THEN /\ now = clock /\ wr = WriteOk
                /\ UNCHANGED <<file, clock>>
                /\ last' = Returned("edit", id, content, <<>>, "Id", "Err", "load")
           ELSE IF content = <<>>
           THEN /\ now = clock /\ wr = WriteOk
                /\ UNCHANGED <<file, clock>>
                /\ last' = Returned("edit", id, content, <<>>, "Id", "Ok",
                                    "No content given.")
           ELSE IF position(ld.data.notes, id) # 0
           THEN /\ file' = sv.file
                /\ clock' = now
                /\ last' = Returned("edit", id, content, <<>>, "Id",
                                    IF sv.ok THEN "Ok" ELSE "Err",
                                    IF sv.ok THEN "" ELSE "save")
           ELSE /\ now = clock /\ wr = WriteOk
                /\ UNCHANGED <<file, clock>>
                /\ last' = Returned("edit", id, content, <<>>, "Id", "Ok",
                                    "Note not found")

search_note(keyword, method, rd) ==
    LET ld == load_notes(file, rd)
    IN  /\ UNCHANGED inflight
        /\ UNCHANGED <<file, clock>>
        /\ IF ~ld.ok
           THEN /\ out' = <<>>
                /\ last' = Returned("search", 0, keyword, <<>>, method, "Err", "load")
           ELSE IF keyword = <<>>
           THEN /\ out' = <<>>
                /\ last' = Returned("search", 0, keyword, <<>>, method, "Ok",
                                    "No keyword given")
           ELSE /\ out' = sort_by_key(method, filter_keyword(ld.data.notes, keyword))
                /\ last' = Returned("search", 0, keyword, <<>>, method, "Ok", "")

\* clean_notes is no command of main; the tests and other callers may run it.
clean_notes(wr) ==
    LET w == fs_write(file, EmptyArrayFile, wr)
    IN  /\ UNCHANGED inflight
        /\ file' = w.file
        /\ UNCHANGED clock
        /\ out' = <<>>
        /\ last' = Returned("clean", 0, NoText, <<>>, "Id",
                            IF w.ok THEN "Ok" ELSE "Err",
                            IF w.ok THEN "" ELSE "save")

(***************************************************************************)
(* The same handlers in two steps, for runs that overlap: the load_notes   *)
(* the handler begins with, and the rest of the handler up to its return.  *)
(* Between the two steps of a run another run may take any of its own.     *)
(***************************************************************************)
\* main parses the command line and the handler calls load_notes.
load_step(p, op, id, text) ==
    /\ inflight[p].pc = "idle"
    /\ load_notes(file, ReadOk).ok
    /\ inflight' = [inflight EXCEPT ![p] =
            Run("loaded", op, id, text, load_notes(file, ReadOk).data,
                FALSE, EmptyData)]
    /\ UNCHANGED <<file, clock, last, out>>

\* The rest of add_note, remove_note or edit_note of run p on the
\* collection data, up to the handler's return.
rest_of_handler(p, data) ==
    LET r == inflight[p]
        found == position(data.notes, r.id) # 0
        saves == \/ r.op = "add"
                 \/ r.op = "remove" /\ found
                 \/ r.op = "edit" /\ r.text # <<>> /\ found
        changed == IF r.op = "add"
                   THEN AddNote(data, r.text, <<>>, clock, clock)
                   ELSE IF r.op = "remove" THEN RemoveNote(data, r.id)
                   ELSE EditNote(data, r.id, r.text, clock)
    IN  /\ r.pc = "loaded"
        /\ file' = IF saves THEN save_notes(file, changed, WriteOk).file ELSE file
        /\ inflight' = [q \in Procs |->
               IF q = p
               THEN [r EXCEPT !.pc = "done",
                              !.wrote = IF saves THEN changed ELSE EmptyData]
               ELSE IF saves /\ inflight[q].pc = "loaded"
               THEN [inflight[q] EXCEPT !.raced = TRUE]
               ELSE inflight[q]]
        /\ last' = Returned(r.op, IF r.op = "add" THEN new_id(data) ELSE r.id,
                            r.text, <<>>, "Id",
                            IF r.op = "remove" /\ ~found THEN "Err" ELSE "Ok",
                            IF saves THEN ""
                            ELSE IF r.op = "remove" THEN "ID not found"
                            ELSE IF r.text = <<>> THEN "No content given."
                            ELSE "Note not found")
        /\ out' = <<>>
        /\ UNCHANGED clock

\* A variant of save_step that loads the file again before it changes it.
save_step_reloading(p) == rest_of_handler(p, load_notes(file, ReadOk).data)

\* The handler goes on with the collection it loaded.
save_step(p) == rest_of_handler(p, inflight[p].data)

\* main returns and the process exits.
exit_step(p) ==
    /\ inflight[p].pc = "done"
    /\ inflight' = [inflight EXCEPT ![p] = NotStarted]
    /\ UNCHANGED <<file, clock, last, out>>

(***************************************************************************)
(* Specifications.  They differ in the commands and inputs they offer and  *)
(* in the behaviour of the file system and the clock they draw from.       *)
(***************************************************************************)
\* The store of ids and tags: a file system that does what it is asked and a
\* clock that stands still; notes differ in their tags.
Next ==
    \/ \E tags \in {<<>>, <<TagX, TagX>>} :
          add_note(TextA, tags, clock, clock, ReadOk, WriteOk)
    \/ \E id \in Ids : remove_note(id, ReadOk, WriteOk)
    \/ \E id \in Ids, c \in {NoText, TextA} :
          edit_note(id, c, clock, ReadOk, WriteOk)
    \/ \E id \in Ids, tags \in {<<>>, <<TagX>>} :
          add_tag(id, tags, ReadOk, WriteOk)
    \/ list_note("Id", ReadOk)
    \/ \E k \in {NoText, <<"A">>} : search_note(k, "Id", ReadOk)

Spec == Init /\ [][Next]_vars

\* The clock: it may advance between any two readings; notes differ in their
\* content and their timestamps.
NextClock ==
    \/ \E t1 \in clock .. MaxClock : \E t2 \in t1 .. MaxClock :
          /\ Len(file.data.notes) < MaxTimedNotes
          /\ add_note(TextA, <<>>, t1, t2, ReadOk, WriteOk)
    \/ \E id \in TimedIds : remove_note(id, ReadOk, WriteOk)
    \/ \E id \in TimedIds, now \in clock .. MaxClock :
          edit_note(id, TextB, now, ReadOk, WriteOk)
    \/ \E id \in TimedIds : add_tag(id, <<TagX>>, ReadOk, WriteOk)
    \/ list_note("Date", ReadOk)
    \/ search_note(<<"b">>, "Update", ReadOk)

SpecClock == Init /\ [][NextClock]_vars

\* List and Search: every sort method and keywords of either case, over
\* notes that differ in id, content and timestamps.
NextView ==
    \/ \E t \in clock .. MaxClock :
          /\ Len(file.data.notes) < MaxViewedNotes
          /\ add_note(TextA, <<>>, t, t, ReadOk, WriteOk)
    \/ \E id \in ViewedIds : remove_note(id, ReadOk, WriteOk)
    \/ \E id \in ViewedIds, now \in clock .. MaxClock :
          edit_note(id, TextB, now, ReadOk, WriteOk)
    \/ \E m \in Methods : list_note(m, ReadOk)
    \/ \E k \in {NoText, <<"A">>, <<"b">>}, m \in Methods :
          search_note(k, m, ReadOk)

SpecView == Init /\ [][NextView]_vars

\* The tags: notes are created with no tag or with a tag given twice, and
\* add_tag is given lists that repeat a tag and that name tags in either
\* order.
NextTags ==
    \/ \E tags \in {<<>>, <<TagX, TagX>>} :
          /\ Len(file.data.notes) < MaxTaggedNotes
          /\ add_note(TextA, tags, clock, clock, ReadOk, WriteOk)
    \/ \E id \in TaggedIds : remove_note(id, ReadOk, WriteOk)
    \/ \E id \in TaggedIds, tags \in {<<>>, <<TagX>>, <<TagY, TagX, TagY>>} :
          add_tag(id, tags, ReadOk, WriteOk)

SpecTags == Init /\ [][NextTags]_vars

\* Two runs that may overlap: each is an Add of its own content, a Remove or
\* an Edit, and takes its two steps whenever it likes.
NextRace ==
    \/ \E p \in Procs :
          /\ Len(file.data.notes) < MaxRacedNotes
          /\ load_step(p, "add", 0, IF p = "p1" THEN TextA ELSE TextB)
    \/ \E p \in Procs, id \in RacedIds : load_step(p, "remove", id, NoText)
    \/ \E p \in Procs, id \in RacedIds : load_step(p, "edit", id, TextB)
    \/ \E p \in Procs : save_step(p)
    \/ \E p \in Procs : exit_step(p)

SpecRace == Init /\ [][NextRace]_vars

\* The file system: reads and writes may fail, a write also after it has
\* begun, and clean_notes may be run between two commands.
NextIO ==
    \/ \E rd \in {ReadOk, ReadDenied}, wr \in WriteOutcomes :
          /\ Len(file.data.notes) < MaxStoredNotes
          /\ add_note(TextA, <<>>, clock, clock, rd, wr)
    \/ \E id \in StoredIds, rd \in {ReadOk, ReadDenied}, wr \in WriteOutcomes :
          remove_note(id, rd, wr)
    \/ \E id \in StoredIds, c \in {NoText, TextB}, rd \in {ReadOk, ReadDenied},
          wr \in WriteOutcomes :
          edit_note(id, c, clock, rd, wr)
    \/ \E id \in StoredIds, tags \in {<<>>, <<TagX>>}, rd \in {ReadOk, ReadDenied},
          wr \in WriteOutcomes :
          add_tag(id, tags, rd, wr)
    \/ \E rd \in {ReadOk, ReadDenied} : list_note("Id", rd)
    \/ \E k \in {NoText, <<"b">>}, rd \in {ReadOk, ReadDenied} :
          search_note(k, "Id", rd)
    \/ \E wr \in WriteOutcomes : clean_notes(wr)

SpecIO == Init /\ [][NextIO]_vars

(***************************************************************************)
(* Vocabulary of the properties.                                           *)
(***************************************************************************)
\* The collection a command loads from file f when the read succeeds.
Stored(f) == load_notes(f, ReadOk).data
StoredNotes == Stored(file).notes
FreeIds == Stored(file).free_ids

\* The number of positions of sequence s that hold x.
Count(s, x) == Cardinality({i \in 1 .. Len(s) : s[i] = x})
Elements(s) == {s[i] : i \in 1 .. Len(s)}

\* The first note with the id, which is the one add_tag and edit_note change.
FirstWith(notes, id) == notes[position(notes, id)]

\* The file after a successful run of remove_note(id), of add_note.
AfterRemove(f, id) == save_notes(f, RemoveNote(Stored(f), id), WriteOk).file
AfterAddTag(f, id, tags) == save_notes(f, AddTag(Stored(f), id, tags), WriteOk).file
AfterAdd(f) == save_notes(f, AddNote(Stored(f), TextA, <<>>, clock, clock), WriteOk).file

\* The command of this step was op and returned Ok after saving.
Saved(op) == last'.op = op /\ last'.res = "Ok" /\ last'.msg = ""

(***************************************************************************)
(* C1.  Id uniqueness: after any sequence of Add and Remove from the empty *)
(* store, no two notes of the stored collection have the same id.          *)
(* The code violates it: Add, Add, Remove(1), Add, Add stores ids 2, 1, 2. *)
(***************************************************************************)
C1_IdUniqueness ==
    \A i, j \in 1 .. Len(StoredNotes) :
        i # j => StoredNotes[i].id # StoredNotes[j].id

\* An Add that finds free_ids non-empty takes its first element.
C2_PopsFirst ==
    (Saved("add") /\ FreeIds # <<>>) =>
        /\ last'.id = Head(FreeIds)
        /\ Len(StoredNotes') = Len(StoredNotes) + 1
        /\ StoredNotes'[Len(StoredNotes')].id = Head(FreeIds)
        /\ FreeIds' = Tail(FreeIds)

\* From this store, if its free_ids is empty: Remove(a), Remove(b), Add, Add.
C2_TwoRemovesTwoAdds ==
    FreeIds = <<>> =>
        \A a, b \in Ids :
            (/\ position(StoredNotes, a) # 0
             /\ position(Stored(AfterRemove(file, a)).notes, b) # 0) =>
                LET f2 == AfterRemove(AfterRemove(file, a), b)
                    f3 == AfterAdd(f2)
                    f4 == AfterAdd(f3)
                IN  /\ Stored(f2).free_ids = <<a, b>>
                    /\ Stored(f3).notes[Len(Stored(f3).notes)].id = a
                    /\ Stored(f4).notes[Len(Stored(f4).notes)].id = b
                    /\ Len(Stored(f4).notes) = Len(StoredNotes)
                    /\ Stored(f4).free_ids = <<>>

(***************************************************************************)
(* C2.  FIFO reuse of freed ids: an Add that finds free_ids non-empty      *)
(* gives the new note the first element of free_ids and removes exactly    *)
(* that element, the rest keeping its order; and from any store with empty *)
(* free_ids, Remove(a), Remove(b), Add, Add give the two new notes the ids *)
(* a then b and leave free_ids empty.                                      *)
(***************************************************************************)
C2_FifoReuse == [][C2_PopsFirst]_vars /\ []C2_TwoRemovesTwoAdds

\* Ids 1, 2, 3 were added, 1 then 2 removed, and two Adds reused 1 then 2.
C2_Witness ==
    /\ last.op = "add" /\ last.res = "Ok" /\ last.id = 2
    /\ Len(StoredNotes) = 3
    /\ StoredNotes[1].id = 3 /\ StoredNotes[2].id = 1 /\ StoredNotes[3].id = 2
    /\ FreeIds = <<>>

(***************************************************************************)
(* C3.  Collection invariant: in every store reachable from the empty      *)
(* store by Add, Remove, Edit and AddTag, no id is both the id of a stored *)
(* note and an entry of free_ids, and no id occurs twice in free_ids.      *)
(* The code violates it once two notes share an id (C1): removing one of   *)
(* them frees an id that is still live.                                    *)
(***************************************************************************)
C3_CollectionInvariant ==
    /\ \A i \in 1 .. Len(StoredNotes), k \in 1 .. Len(FreeIds) :
          StoredNotes[i].id # FreeIds[k]
    /\ \A k, l \in 1 .. Len(FreeIds) : k # l => FreeIds[k] # FreeIds[l]

(***************************************************************************)
(* C4.  Remove effect: Remove(id) of an id that some note has succeeds;    *)
(* afterwards the stored notes are exactly the other notes, each with all  *)
(* fields unchanged, none has the id, and free_ids is the previous         *)
(* free_ids with id appended.                                              *)
(* The code violates it once two notes share an id (C1): the second one    *)
(* stays.                                                                  *)
(***************************************************************************)
C4_RemoveEffect ==
    [][(last'.op = "remove" /\ position(StoredNotes, last'.id) # 0) =>
          /\ last'.res = "Ok"
          /\ \A n \in Elements(StoredNotes) \cup Elements(StoredNotes') :
                Count(StoredNotes', n) =
                    IF n.id = last'.id THEN 0 ELSE Count(StoredNotes, n)
          /\ FreeIds' = Append(FreeIds, last'.id)]_vars

(***************************************************************************)
(* C5.  Add effect with no free ids: when free_ids is empty, Add appends   *)
(* one note at the end of the stored notes; its id is the id of the        *)
(* previously last note plus 1, or 1 if there was none, its content and    *)
(* tags are the given ones, duplicates of the tag list kept; every note    *)
(* stored before and free_ids are unchanged.  So Adds on a store holding   *)
(* ids 1..k in storage order leave it holding ids 1..k+1 in storage order. *)
(***************************************************************************)
C5_AddEffect ==
    [][(Saved("add") /\ FreeIds = <<>>) =>
          LET old == StoredNotes
              new == StoredNotes'
              n == new[Len(new)]
          IN  /\ Len(new) = Len(old) + 1
              /\ SubSeq(new, 1, Len(old)) = old
              /\ FreeIds' = <<>>
              /\ n.id = (IF old = <<>> THEN 1 ELSE old[Len(old)].id + 1)
              /\ last'.id = n.id
              /\ n.content = last'.text
              /\ n.tags = last'.tags
              /\ (\A i \in 1 .. Len(old) : old[i].id = i) =>
                    (\A i \in 1 .. Len(new) : new[i].id = i)]_vars

\* Three Adds on the empty store, the last with a tag given twice.
C5_Witness ==
    /\ last.op = "add" /\ last.res = "Ok" /\ last.tags = <<TagX, TagX>>
    /\ Len(StoredNotes) = 3
    /\ \A i \in 1 .. 3 : StoredNotes[i].id = i
    /\ StoredNotes[3].tags = <<TagX, TagX>>
    /\ StoredNotes[3].content = TextA
    /\ FreeIds = <<>>

\* AddTag(id, [t]) has just found its note and saved.
C6_Applied ==
    /\ last.op = "add_tag" /\ last.res = "Ok" /\ last.msg = ""
    /\ Len(last.tags) = 1

(***************************************************************************)
(* C6.  Tag idempotence, as claimed: for any live note, however it was     *)
(* created, and any tag t, after AddTag(id, [t]) is applied twice the      *)
(* note's tags hold t exactly once, and the second application leaves the  *)
(* store unchanged.                                                        *)
(* Fails for a note that Add created with t given twice.                   *)
(***************************************************************************)
C6_TagIdempotence ==
    C6_Applied =>
        LET twice == AfterAddTag(file, last.id, last.tags)
        IN  /\ twice = file
            /\ Count(FirstWith(Stored(twice).notes, last.id).tags, last.tags[1]) = 1

\* AddTag(id, [t]) on a note that holds t at most once leaves it holding t once.
C6_HeldOnce ==
    (/\ Saved("add_tag")
     /\ Len(last'.tags) = 1
     /\ Count(FirstWith(StoredNotes, last'.id).tags, last'.tags[1]) <= 1) =>
        Count(FirstWith(StoredNotes', last'.id).tags, last'.tags[1]) = 1

\* The same AddTag(id, [t]) once more would write the file as it is.
C6_SecondChangesNothing ==
    C6_Applied => AfterAddTag(file, last.id, last.tags) = file

(***************************************************************************)
(* C6.  Tag idempotence, as amended: for any id that some note has and any *)
(* tag t that the first note with that id holds at most once, after        *)
(* AddTag(id, [t]) that note holds t exactly once; and whatever the note's *)
(* tags are, a second application of the same AddTag leaves the store      *)
(* unchanged.                                                              *)
(***************************************************************************)
C6_TagIdempotenceAmended == [][C6_HeldOnce]_vars /\ []C6_SecondChangesNothing

\* AddTag(1, [x]) has found and saved a note that holds x once.
C6_Witness ==
    /\ last.op = "add_tag" /\ last.res = "Ok" /\ last.msg = ""
    /\ last.tags = <<TagX>>
    /\ position(StoredNotes, last.id) # 0
    /\ FirstWith(StoredNotes, last.id).tags = <<TagX>>
    /\ Len(StoredNotes) >= 2

(***************************************************************************)
(* C7.  clear() resets the backing store to an empty collection: after     *)
(* clean_notes has succeeded, load_notes succeeds and returns empty notes  *)
(* and empty free_ids.                                                     *)
(* The code writes "[]", which load_notes cannot parse as a NoteData.      *)
(***************************************************************************)
C7_ClearResets ==
    (last.op = "clean" /\ last.res = "Ok") =>
        load_notes(file, ReadOk) = Ok(EmptyData)

(***************************************************************************)
(* C8.  Add sets created_at = updated_at = now: under a clock that may     *)
(* advance between two readings, the note an Add has just created has      *)
(* created_at equal to updated_at.                                         *)
(* The code reads the clock once for each field.                           *)
(***************************************************************************)
C8_AddTimestampsEqual ==
    (last.op = "add" /\ last.res = "Ok") =>
        StoredNotes[Len(StoredNotes)].created_at
            = StoredNotes[Len(StoredNotes)].updated_at

(***************************************************************************)
(* C9.  No write on user error: Remove, Edit and AddTag of an id that no   *)
(* note has, Edit with empty content, AddTag with an empty tag list and    *)
(* Search with an empty keyword leave the backing file as it was; Remove   *)
(* of a missing id returns an error, the others return success.            *)
(***************************************************************************)
C9_NoWriteOnUserError ==
    [][/\ (last'.op = "remove" /\ position(StoredNotes, last'.id) = 0) =>
              (file' = file /\ last'.res = "Err")
       /\ (/\ last'.op = "edit"
           /\ (last'.text = <<>> \/ position(StoredNotes, last'.id) = 0)) =>
              (file' = file /\ last'.res = "Ok")
       /\ (/\ last'.op = "add_tag"
           /\ (last'.tags = <<>> \/ position(StoredNotes, last'.id) = 0)) =>
              (file' = file /\ last'.res = "Ok")
       /\ (last'.op = "search" /\ last'.text = <<>>) =>
              (file' = file /\ last'.res = "Ok")]_vars

\* Edit with empty content of a note that exists, in a store with a free id.
C9_Witness ==
    /\ last.op = "edit" /\ last.text = <<>> /\ last.res = "Ok"
    /\ position(StoredNotes, last.id) # 0
    /\ FreeIds # <<>>

(***************************************************************************)
(* C10.  Failed save preserves the store: whenever the save of Add,        *)
(* Remove, Edit or AddTag fails, also after the overwrite has begun, the   *)
(* store on disk is the one from before the command, and the command       *)
(* returns an error.                                                       *)
(* The code overwrites in place: a write that fails after the file was     *)
(* truncated leaves it empty or cut off.                                   *)
(***************************************************************************)
C10_FailedSavePreservesStore ==
    [][(last'.op \in {"add", "remove", "edit", "add_tag"} /\ last'.msg = "save") =>
          /\ last'.res = "Err"
          /\ load_notes(file', ReadOk) = load_notes(file, ReadOk)]_vars


(***************************************************************************)
(* C11.  Edit effect: Edit(id, c) with non-empty c and an id that some     *)
(* note has replaces the content of the first note with that id by c and   *)
(* sets its updated_at to the reading of the clock; that note's id, tags   *)
(* and created_at, every other note, the order of the notes and free_ids   *)
(* are unchanged.                                                          *)
(***************************************************************************)
C11_EditEffect ==
    [][(/\ last'.op = "edit"
        /\ last'.text # <<>>
        /\ position(StoredNotes, last'.id) # 0) =>
          LET old == StoredNotes
              new == StoredNotes'
              i == position(old, last'.id)
          IN  /\ last'.res = "Ok"
              /\ clock' >= clock
              /\ Len(new) = Len(old)
              /\ new[i].content = last'.text
              /\ new[i].updated_at = clock'
              /\ new[i].id = old[i].id
              /\ new[i].tags = old[i].tags
              /\ new[i].created_at = old[i].created_at
              /\ \A j \in 1 .. Len(old) : j # i => new[j] = old[j]
              /\ FreeIds' = FreeIds]_vars

\* Edit has rewritten the second of two notes, later than it was created,
\* in a store whose ids are out of order after a removal and a reuse.
C11_Witness ==
    /\ last.op = "edit" /\ last.res = "Ok" /\ last.msg = "" /\ last.text = TextB
    /\ Len(StoredNotes) = 2
    /\ position(StoredNotes, last.id) = 2
    /\ StoredNotes[2].content = TextB
    /\ StoredNotes[2].tags = <<TagX>>
    /\ StoredNotes[2].created_at < StoredNotes[2].updated_at
    /\ StoredNotes[1].content = TextA
    /\ StoredNotes[1].id = 2

\* Every stored note was updated no earlier than it was created.
C12_UpdatedNotBeforeCreated ==
    \A i \in 1 .. Len(StoredNotes) :
        StoredNotes[i].updated_at >= StoredNotes[i].created_at

\* No command changes the created_at of a note it keeps: Add keeps the notes
\* it found, Remove keeps notes it found, and every other command keeps every
\* note's id and created_at in place.
C12_CreatedAtKept ==
    LET old == StoredNotes
        new == StoredNotes'
    IN  IF Saved("add")
        THEN SubSeq(new, 1, Len(old)) = old
        ELSE IF Saved("remove")
        THEN \A n \in Elements(new) : Count(new, n) <= Count(old, n)
        ELSE /\ Len(new) = Len(old)
             /\ \A i \in 1 .. Len(old) :
                   /\ new[i].id = old[i].id
                   /\ new[i].created_at = old[i].created_at

(***************************************************************************)
(* C12.  Timestamp invariant: in every store reachable from the empty      *)
(* store by Add, Remove, Edit and AddTag under a clock that never goes     *)
(* back, every note has updated_at >= created_at, and the created_at of a  *)
(* note never changes after its creation.                                  *)
(***************************************************************************)
C12_TimestampInvariant ==
    [][C12_CreatedAtKept]_vars /\ []C12_UpdatedNotBeforeCreated

\* A note created at 0 was edited at 1 and still says it was created at 0.
C12_Witness ==
    /\ last.op = "edit" /\ last.res = "Ok" /\ last.msg = ""
    /\ clock = 1
    /\ FirstWith(StoredNotes, last.id).created_at = 0
    /\ FirstWith(StoredNotes, last.id).updated_at = 1


\* The rows printed are in the order of the sort method's key.
C13_Sorted(method, rows) ==
    \A i, j \in 1 .. Len(rows) : i < j => key_le(method, rows[i], rows[j])

(***************************************************************************)
(* C13.  List and Search are read-only: for any sort method and keyword    *)
(* they never write the backing file; the stored notes, their storage      *)
(* order and free_ids are the same before and after, even though the rows  *)
(* printed are the stored notes, or those that match, in sorted order.     *)
(***************************************************************************)
C13_ListSearchReadOnly ==
    [][(last'.op \in {"list", "search"}) =>
          /\ file' = file
          /\ last'.res = "Ok"
          /\ C13_Sorted(last'.method, out')
          /\ \A n \in Elements(out') : Count(out', n) = Count(StoredNotes, n)
          /\ (last'.op = "list") =>
                \A n \in Elements(StoredNotes) : n \in Elements(out')]_vars

\* List has printed two notes in another order than they are stored in.
C13_Witness ==
    /\ last.op = "list" /\ last.res = "Ok"
    /\ Len(out) = 2
    /\ out # StoredNotes
    /\ file.kind = "object"


\* The position of the first occurrence of x in s.
FirstOccurrence(s, x) ==
    CHOOSE i \in 1 .. Len(s) : s[i] = x /\ \A j \in 1 .. (i - 1) : s[j] # x

(***************************************************************************)
(* C14.  AddTag result: AddTag(id, I) with non-empty I and an id that some *)
(* note has leaves the tags T of the first note with that id as a prefix   *)
(* and appends the distinct elements of I that are not in T, each once, in *)
(* the order of their first occurrence in I; the note's other fields,      *)
(* every other note and free_ids are unchanged.                            *)
(***************************************************************************)
C14_AddTagResult ==
    [][(/\ last'.op = "add_tag"
        /\ last'.tags # <<>>
        /\ position(StoredNotes, last'.id) # 0) =>
          LET old == StoredNotes
              new == StoredNotes'
              i == position(old, last'.id)
              I == last'.tags
              T == old[i].tags
              R == new[i].tags
              S == SubSeq(R, Len(T) + 1, Len(R))
          IN  /\ last'.res = "Ok"
              /\ Len(new) = Len(old)
              /\ Len(R) >= Len(T)
              /\ SubSeq(R, 1, Len(T)) = T
              /\ Elements(S) = Elements(I) \ Elements(T)
              /\ \A t \in Elements(S) : Count(S, t) = 1
              /\ \A a, b \in 1 .. Len(S) :
                    a < b => FirstOccurrence(I, S[a]) < FirstOccurrence(I, S[b])
              /\ new[i] = [old[i] EXCEPT !.tags = R]
              /\ \A j \in 1 .. Len(old) : j # i => new[j] = old[j]
              /\ FreeIds' = FreeIds]_vars

\* AddTag was given y, x, y for a note that held x twice and appended one y;
\* another note of the store holds y before x.
C14_Witness ==
    /\ last.op = "add_tag" /\ last.res = "Ok" /\ last.msg = ""
    /\ last.tags = <<TagY, TagX, TagY>>
    /\ FirstWith(StoredNotes, last.id).tags = <<TagX, TagX, TagY>>
    /\ \E n \in Elements(StoredNotes) : n.tags = <<TagY, TagX>>


\* Run p takes its second step and saves, after another run has saved since
\* p loaded.
C15_SavesLast(p) ==
    /\ inflight[p].pc = "loaded"
    /\ inflight'[p].pc = "done"
    /\ inflight[p].raced
    /\ last'.msg = ""

\* The store after p's save is p's change made to the collection p loaded.
C15_OwnChangeOfLoaded(p) ==
    LET r == inflight[p]
        old == r.data.notes
        new == StoredNotes'
        i == position(old, r.id)
    IN  IF r.op = "add"
        THEN /\ Len(new) = Len(old) + 1
             /\ SubSeq(new, 1, Len(old)) = old
             /\ new[Len(new)].content = r.text
             /\ FreeIds' = IF r.data.free_ids = <<>> THEN <<>>
                           ELSE Tail(r.data.free_ids)
        ELSE IF r.op = "remove"
        THEN /\ Len(new) = Len(old) - 1
             /\ \A n \in Elements(old) :
                   Count(new, n) = Count(old, n) - (IF n = old[i] THEN 1 ELSE 0)
             /\ FreeIds' = Append(r.data.free_ids, r.id)
        ELSE /\ Len(new) = Len(old)
             /\ new[i] = [old[i] EXCEPT !.content = r.text, !.updated_at = clock']
             /\ \A j \in 1 .. Len(old) : j # i => new[j] = old[j]
             /\ FreeIds' = r.data.free_ids

\* What run q saved from the same collection is lost: of two Adds one note
\* is stored, under the id both were given; a note q removed is stored.
C15_OtherChangeLost(p, q) ==
    LET r == inflight[p]
        o == inflight[q]
        new == StoredNotes'
    IN  (/\ o.pc = "done"
         /\ o.wrote # EmptyData
         /\ o.data = r.data) =>
            /\ (o.op = "add" /\ r.op = "add") =>
                  /\ Len(new) = Len(o.wrote.notes)
                  /\ new[Len(new)].id = o.wrote.notes[Len(new)].id
                  /\ new[Len(new)].content # o.text
            /\ (o.op = "remove" /\ r.op # "remove") =>
                  Len(new) > Len(o.wrote.notes)
            /\ (o.op = "add" /\ r.op # "add") =>
                  Len(new) < Len(o.wrote.notes)

(***************************************************************************)
(* C15.  Last writer wins: when two runs of mutating commands overlap,     *)
(* both loading before either saves, the store after the later save is     *)
(* the later run's change made to the collection it loaded; the earlier    *)
(* run's change is absent, and two such Adds are given the same id.        *)
(***************************************************************************)
C15_LastWriterWins ==
    [][\A p \in Procs : C15_SavesLast(p) =>
          /\ last'.res = "Ok"
          /\ C15_OwnChangeOfLoaded(p)
          /\ \A q \in Procs \ {p} : C15_OtherChangeLost(p, q)]_vars

\* Two Adds loaded the same store, in which id 1 was free; both have saved,
\* both were given id 1, and the store holds the note of the later one only.
C15_Witness ==
    \E p \in Procs : \E q \in Procs \ {p} :
        /\ inflight[p].pc = "done" /\ inflight[q].pc = "done"
        /\ inflight[p].op = "add" /\ inflight[q].op = "add"
        /\ inflight[p].raced /\ ~inflight[q].raced
        /\ inflight[p].data = inflight[q].data
        /\ inflight[p].data.free_ids = <<1>>
        /\ StoredNotes = inflight[p].wrote.notes
        /\ Len(StoredNotes) = 1
        /\ StoredNotes[1].id = inflight[q].wrote.notes[1].id
        /\ StoredNotes[1].content # inflight[q].text
        /\ FreeIds = <<>>


\* The ids that occur in the notes or in free_ids of the stored collection.
C16_IdSpace == {StoredNotes[i].id : i \in 1 .. Len(StoredNotes)} \cup Elements(FreeIds)

\* The ids that occur are 1 .. N for the largest of them, N.
C16_Contiguous == C16_IdSpace = 1 .. Cardinality(C16_IdSpace)

\* No command takes an id out of the id space, and the id Add assigns is a
\* positive member of it: the largest id that occurs is the largest id ever
\* assigned.
C16_IdSpaceGrows ==
    /\ C16_IdSpace \subseteq C16_IdSpace'
    /\ Saved("add") =>
          /\ last'.id >= 1
          /\ last'.id \in C16_IdSpace'
          /\ C16_IdSpace' = C16_IdSpace \cup {last'.id}

(***************************************************************************)
(* C16.  No gaps in the id space: in every store reachable from the empty  *)
(* store by Add, Remove, Edit and AddTag, the ids that occur in notes or   *)
(* in free_ids are exactly 1 .. N for N the largest id ever assigned, and  *)
(* none when nothing was added; 0 is never assigned and every free id is   *)
(* at most N.                                                              *)
(***************************************************************************)
C16_NoGaps ==
    [][C16_IdSpaceGrows]_vars /\ []C16_Contiguous

\* Ids 1 and 3 were removed in that order and id 2 is live: the id space is
\* 1 .. 3 with two of the ids free.
C16_Witness ==
    /\ last.op = "remove" /\ last.res = "Ok"
    /\ FreeIds = <<1, 3>>
    /\ Len(StoredNotes) = 1
    /\ StoredNotes[1].id = 2
    /\ C16_IdSpace = 1 .. 3

====
